---- MODULE Spec2Model ----
(***************************************************************************)
(* Model of the images-optimizer batch pipeline (src/src/main.rs):         *)
(* staging (replace vs. safe copy), scan, the rayon parallel phase with    *)
(* one process per work item, and the join before the final report.        *)
(*                                                                         *)
(* A file name is a sequence of tokens ("a.jpg" is <<"a", ".", "jpg">>),   *)
(* so that format!("{}__optimized", name), Path::extension and             *)
(* Path::with_extension are computed rather than assumed.  A path is a     *)
(* sequence of names relative to the working directory; the filesystem is  *)
(* a function from the existing paths to their nodes.                      *)
(* The silent flag only gates printing and is fixed to false.              *)
(***************************************************************************)
EXTENDS Integers, Sequences, FiniteSets, TLC

\* ---------------------------------------------------------------- bounds
\* largest length mozjpeg, pngquant or oxipng may produce
MaxLen == 2
\* largest length the WebP or AVIF encoder may produce
MaxDerivedLen == 2
\* longest path the operating system accepts (stands for PATH_MAX)
MaxDepth == 3

\* ---------------------------------------------------------------- names
CurDir == <<".">>
OptSuffix == "__optimized"
None == <<>>

Dir(n) == [kind |-> "dir", len |-> n, data |-> "dir"]
File(n, d) == [kind |-> "file", len |-> n, data |-> d]

nIn == <<"in">>
nMissing == <<"missing">>
nInOpt == <<"in", OptSuffix>>
nAJpg == <<"a", ".", "jpg">>
nAPng == <<"a", ".", "png">>
nNotes == <<"notes", ".", "txt">>
nOldTxt == <<"old", ".", "txt">>
nDPng == <<"d", ".", "png">>
nCJPG == <<"c", ".", "JPG">>
nBad == <<"bad", ".", "jpeg">>

\* ---------------------------------------------------------------- std::path
Last(s) == s[Len(s)]
Front(s) == SubSeq(s, 1, Len(s) - 1)

\* Path::file_name: the last component when it is a normal name
file_name(p) == IF p = <<>> \/ Last(p) = CurDir THEN None ELSE Last(p)

\* Path::parent(..).unwrap_or(Path::new("."))
parent_or_dot(p) == IF p = <<>> THEN <<CurDir>> ELSE Front(p)

join(p, n) == Append(p, n)

\* the location a path names: "." components do not move
Resolve(p) == SelectSeq(p, LAMBDA n : n # CurDir)

DotPositions(n) == {k \in 2..Len(n) : n[k] = "."}
LastDot(n) == CHOOSE k \in DotPositions(n) : \A j \in DotPositions(n) : j <= k

\* Path::extension of the last component
extension(p) ==
  IF file_name(p) = None \/ DotPositions(Last(p)) = {} THEN None
  ELSE SubSeq(Last(p), LastDot(Last(p)) + 1, Len(Last(p)))

\* str::to_lowercase on the tokens the model uses
to_lowercase(e) ==
  [k \in 1..Len(e) |-> CASE e[k] = "JPG" -> "jpg"
                         [] e[k] = "PNG" -> "png"
                         [] e[k] = "JPEG" -> "jpeg"
                         [] OTHER -> e[k]]

\* Path::with_extension
with_extension(p, e) ==
  LET n == Last(p)
      stem == IF DotPositions(n) = {} THEN n ELSE SubSeq(n, 1, LastDot(n) - 1)
  IN  join(Front(p), stem \o <<".", e>>)

IsPrefix(a, b) == Len(a) <= Len(b) /\ SubSeq(b, 1, Len(a)) = a

\* ---------------------------------------------------------------- std::fs
exists(f, p) == Resolve(p) \in DOMAIN f

Put(f, p, node) == [q \in (DOMAIN f) \cup {p} |-> IF q = p THEN node ELSE f[q]]

Prefixes(p) == {SubSeq(p, 1, k) : k \in 0..Len(p)}

\* fs::create_dir_all: every missing ancestor and the directory itself
create_dir_all(f, p) ==
  [q \in (DOMAIN f) \cup Prefixes(p) |-> IF q \in DOMAIN f THEN f[q] ELSE Dir(1)]

\* fs::remove_dir_all
remove_dir_all(f, p) == [q \in {r \in DOMAIN f : ~IsPrefix(p, r)} |-> f[q]]

\* fs::read_dir: the names of the entries of a directory
read_dir(f, p) == {Last(q) : q \in {r \in DOMAIN f : Len(r) = Len(p) + 1 /\ IsPrefix(p, r)}}

\* fs::metadata(path).map(|m| m.len()).unwrap_or(dflt)
metadata_len(f, p, dflt) == IF p \in DOMAIN f THEN f[p].len ELSE dflt

\* image::open succeeds on a file that holds a complete image
Decodable(f, p) ==
  /\ p \in DOMAIN f
  /\ f[p].kind = "file"
  /\ f[p].data \in {"img", "mozjpeg", "pngquant", "oxipng"}

RECURSIVE copy_dir_recursive(_, _, _)
RECURSIVE CopyEntries(_, _, _, _)

\* lines 59-74; src and dst are resolved paths, the result is the new
\* filesystem and whether the call returned Ok
copy_dir_recursive(f, src, dst) ==
  IF dst \notin DOMAIN f /\ Len(dst) > MaxDepth
  THEN [fs |-> f, ok |-> FALSE]
  ELSE LET f1 == IF dst \in DOMAIN f THEN f ELSE create_dir_all(f, dst)
       IN  IF src \notin DOMAIN f1 \/ f1[src].kind # "dir"
           THEN [fs |-> f1, ok |-> FALSE]
           ELSE CopyEntries(f1, src, dst, read_dir(f1, src))

\* the for loop of copy_dir_recursive over the entries not yet visited
CopyEntries(f, src, dst, todo) ==
  IF todo = {} THEN [fs |-> f, ok |-> TRUE]
  ELSE LET e == CHOOSE x \in todo : TRUE
           s == join(src, e)
           d == join(dst, e)
       IN  IF f[s].kind = "dir"
           THEN LET r == copy_dir_recursive(f, s, d)
                IN  IF r.ok THEN CopyEntries(r.fs, src, dst, todo \ {e}) ELSE r
           ELSE CopyEntries(Put(f, d, f[s]), src, dst, todo \ {e})

\* ---------------------------------------------------------------- inputs
\* a directory holding a JPEG and a PNG of the same stem, next to a stale
\* output directory of an earlier run
TreePair ==
  (<<>> :> Dir(1)) @@ (<<nIn>> :> Dir(1))
  @@ (<<nIn, nAJpg>> :> File(2, "img")) @@ (<<nIn, nAPng>> :> File(3, "img"))
  @@ (<<nIn, nNotes>> :> File(1, "txt"))
  @@ (<<nInOpt>> :> Dir(1)) @@ (<<nInOpt, nOldTxt>> :> File(1, "txt"))

\* a directory whose name ends in .png, an upper-case extension and a
\* corrupt image
TreeOdd ==
  (<<>> :> Dir(1)) @@ (<<nIn>> :> Dir(1))
  @@ (<<nIn, nDPng>> :> Dir(1)) @@ (<<nIn, nDPng, nCJPG>> :> File(1, "img"))
  @@ (<<nIn, nBad>> :> File(2, "bad"))

\* the runs of the model: a tree and the path argument (line 23; "." is the
\* default)
Scenarios ==
  {[tree |-> TreePair, path |-> <<nIn>>],
   [tree |-> TreePair, path |-> <<nIn, nAJpg>>],
   [tree |-> TreePair, path |-> <<nMissing>>],
   [tree |-> TreeOdd, path |-> <<nIn>>],
   [tree |-> TreeOdd, path |-> <<CurDir>>]}

\* ---------------------------------------------------------------- codecs
IoOutcomes == {"ok", "create_err", "write_err"}

\* what mozjpeg returns for one image: an error of start_compress,
\* write_scanlines or finish_compress, or the compressed length, and what
\* File::create / write_all do with it
JpgOutcomes ==
  {[enc |-> e, len |-> 0, io |-> "ok", pq |-> 0, oxi |-> 0] :
      e \in {"start_err", "scan_err", "finish_err"}}
  \cup {[enc |-> "ok", len |-> n, io |-> w, pq |-> 0, oxi |-> 0] :
      n \in 0..MaxLen, w \in IoOutcomes}

\* the length each PNG tool produces, 0 when the tool fails
PngOutcomes ==
  {[enc |-> "ok", len |-> 0, io |-> "ok", pq |-> a, oxi |-> b] :
      a \in 0..MaxLen, b \in 0..MaxLen}

Unused == [enc |-> "ok", len |-> 0, io |-> "ok", pq |-> 0, oxi |-> 0]

\* the guard without the comparison against the original size
JpgShouldWrite_NonEmpty(new_len, original_size) == new_len > 0

\* line 99: overwrite only when the result is non-empty and strictly smaller
JpgShouldWrite(new_len, original_size) == new_len > 0 /\ new_len < original_size

\* lines 76-108; the result is the new filesystem, the returned bytes_saved,
\* whether the target was opened for writing and whether the call panicked
process_jpg(f, path, o) ==
  LET original_size == metadata_len(f, path, 0)
      same == [fs |-> f, ret |-> 0, wrote |-> FALSE, panic |-> FALSE]
  IN  IF ~Decodable(f, path) THEN same
      ELSE IF o.enc = "start_err" THEN [same EXCEPT !.panic = TRUE]
      ELSE IF o.enc # "ok" THEN same
      ELSE IF ~JpgShouldWrite(o.len, original_size) THEN same
      ELSE IF o.io = "create_err" THEN same
      ELSE IF o.io = "write_err"
      THEN [fs |-> Put(f, path, File(0, "partial")), ret |-> 0,
            wrote |-> TRUE, panic |-> FALSE]
      ELSE [fs |-> Put(f, path, File(o.len, "mozjpeg")),
            ret |-> original_size - o.len, wrote |-> TRUE, panic |-> FALSE]

\* pngquant --force --ext=.png --skip-if-larger: replaces the file only by a
\* smaller one
Pngquant(f, path, c) ==
  IF Decodable(f, path) /\ c > 0 /\ c < f[path].len
  THEN Put(f, path, File(c, "pngquant")) ELSE f

\* oxipng -o 4 --strip all: writes the file only when the result is smaller
Oxipng(f, path, c) ==
  IF Decodable(f, path) /\ c > 0 /\ c < f[path].len
  THEN Put(f, path, File(c, "oxipng")) ELSE f

\* line 130
PngSaved(original_size, new_size) ==
  IF original_size > new_size THEN original_size - new_size ELSE 0

\* lines 110-131
process_png(f, path, o) ==
  LET original_size == metadata_len(f, path, 0)
      f1 == Pngquant(f, path, o.pq)
      f2 == Oxipng(f1, path, o.oxi)
      new_size == metadata_len(f2, path, original_size)
  IN  [fs |-> f2, ret |-> PngSaved(original_size, new_size),
       wrote |-> f2 # f, panic |-> FALSE]

\* the encoder output written over the image itself
WebpPath_InPlace(path) == path

\* lines 134 and 160
WebpPath(path) == with_extension(path, "webp")
AvifPath(path) == with_extension(path, "avif")

\* the fall-through returning the size of the written file instead of 0
WebpSaved_ReturnsSize(original_size, webp_size) ==
  IF original_size > webp_size THEN original_size - webp_size ELSE webp_size

\* lines 152-156
WebpSaved(original_size, webp_size) ==
  IF original_size > webp_size THEN original_size - webp_size ELSE 0

\* lines 182-184
AvifSaved(original_size, avif_size) ==
  IF original_size > avif_size THEN original_size - avif_size ELSE 0

\* fs::write(path, data): File::create then write_all
fs_write(f, p, n, d, io) ==
  CASE io = "create_err" -> f
    [] io = "write_err" -> Put(f, p, File(0, "partial"))
    [] OTHER -> Put(f, p, File(n, d))

\* ---------------------------------------------------------------- scan
supported_exts == {<<"png">>, <<"jpg">>, <<"jpeg">>}

\* lines 247-251
Supported(p) == to_lowercase(extension(p)) \in supported_exts

\* WalkDir::new(root): the root and everything below it, directories
\* included; an error entry (missing root) is dropped by filter_map
WalkDir(f, root) == {q \in DOMAIN f : IsPrefix(root, q)}

RECURSIVE SetToSeq(_)
SetToSeq(S) ==
  IF S = {} THEN <<>>
  ELSE LET x == CHOOSE y \in S : TRUE IN <<x>> \o SetToSeq(S \ {x})

\* line 304: png goes to the PNG adapter, every other extension to JPEG
IsPngItem(p) == to_lowercase(extension(p)) = <<"png">>

\* the adapter outcomes that can matter for one work item
Outcomes(f, p) ==
  IF ~Decodable(f, p) THEN {Unused}
  ELSE IF IsPngItem(p) THEN PngOutcomes ELSE JpgOutcomes

\* lines 304-312
process_orig(f, p, o) == IF IsPngItem(p) THEN process_png(f, p, o) ELSE process_jpg(f, p, o)

\* ---------------------------------------------------------------- state
VARIABLES args, fs, fs0, phase, target_dir, files, scanFs, oracle, pc,
          original_file_size, total_input_size, saved_orig, saved_webp,
          saved_avif, bar, ret, writers, calls, out

vars == <<args, fs, fs0, phase, target_dir, files, scanFs, oracle, pc,
          original_file_size, total_input_size, saved_orig, saved_webp,
          saved_avif, bar, ret, writers, calls, out>>

counters == <<total_input_size, saved_orig, saved_webp, saved_avif, bar>>
setup == <<args, fs0, target_dir, files, scanFs, oracle>>

Items == 1..Len(files)

Init ==
  /\ \E sc \in Scenarios :
       /\ args \in [path : {sc.path}, replace : BOOLEAN, webp : BOOLEAN, avif : BOOLEAN]
       /\ fs = sc.tree
  /\ fs0 = fs
  /\ phase = "start"
  /\ target_dir = <<>>
  /\ files = <<>>
  /\ scanFs = fs
  /\ oracle = <<>>
  /\ pc = <<>>
  /\ original_file_size = <<>>
  /\ ret = <<>>
  /\ calls = <<>>
  /\ total_input_size = 0
  /\ saved_orig = 0
  /\ saved_webp = 0
  /\ saved_avif = 0
  /\ bar = 0
  /\ writers = {}
  /\ out = {}

\* lines 219-221
TargetOf(input_path) ==
  join(parent_or_dot(input_path), file_name(input_path) \o <<OptSuffix>>)

\* lines 214-217: replace mode works on the input itself
StageReplace ==
  /\ phase = "start"
  /\ args.replace
  /\ target_dir' = Resolve(args.path)
  /\ phase' = "scan"
  /\ UNCHANGED <<args, fs, fs0, files, scanFs, oracle, pc, original_file_size,
                 counters, ret, writers, calls, out>>

\* lines 218-239: safe mode removes an old target and copies the input
StageCopy ==
  /\ phase = "start"
  /\ ~args.replace
  /\ LET target == Resolve(TargetOf(args.path))
         src == Resolve(args.path)
     IN  /\ target_dir' = target
         /\ \E rm_ok \in BOOLEAN :
              IF target \in DOMAIN fs /\ ~rm_ok
              THEN /\ fs' = fs
                   /\ out' = out \cup {"error_removing"}
                   /\ phase' = "exit"
              ELSE LET f1 == IF target \in DOMAIN fs THEN remove_dir_all(fs, target) ELSE fs
                       r == copy_dir_recursive(f1, src, target)
                   IN  /\ fs' = r.fs
                       /\ out' = IF r.ok THEN out ELSE out \cup {"error_copying"}
                       /\ phase' = IF r.ok THEN "scan" ELSE "exit"
  /\ UNCHANGED <<args, fs0, files, scanFs, oracle, pc, original_file_size,
                 counters, ret, writers, calls>>

\* lines 241-278: build the work list, stop when it is empty, otherwise
\* create the counters and start the parallel phase
Scan ==
  /\ phase = "scan"
  /\ LET found == SetToSeq({q \in WalkDir(fs, target_dir) : Supported(q)})
     IN  IF found = <<>>
         THEN /\ out' = out \cup {"no_supported_files"}
              /\ phase' = "exit"
              /\ UNCHANGED <<files, scanFs, oracle, pc, original_file_size, ret, calls>>
         ELSE /\ files' = found
              /\ scanFs' = fs
              /\ oracle' = [i \in 1..Len(found) |-> Unused]
              /\ pc' = [i \in 1..Len(found) |-> "start"]
              /\ original_file_size' = [i \in 1..Len(found) |-> 0]
              /\ ret' = [i \in 1..Len(found) |-> [webp |-> 0, avif |-> 0, orig |-> 0]]
              /\ calls' = [i \in 1..Len(found) |-> 0]
              /\ out' = out \cup {"found"}
              /\ phase' = "parallel"
  /\ UNCHANGED <<args, fs, fs0, target_dir, counters, writers>>

\* lines 281-287: read the size, add it to the total, decode when a derived
\* format is requested
Dispatch(i) ==
  /\ phase = "parallel"
  /\ pc[i] = "start"
  /\ LET size == metadata_len(fs, files[i], 0)
     IN  /\ original_file_size' = [original_file_size EXCEPT ![i] = size]
         /\ total_input_size' = total_input_size + size
  /\ pc' = [pc EXCEPT ![i] =
              IF (args.webp \/ args.avif) /\ Decodable(fs, files[i])
              THEN (IF args.webp THEN "webp" ELSE "avif")
              ELSE "orig"]
  /\ UNCHANGED <<setup, fs, phase, saved_orig, saved_webp, saved_avif, bar,
                 ret, writers, calls, out>>

\* lines 288-293 and 133-157
GenerateWebp(i) ==
  /\ phase = "parallel"
  /\ pc[i] = "webp"
  /\ \E webp_size \in 1..MaxDerivedLen, io \in IoOutcomes :
       LET webp_path == WebpPath(files[i])
           s == IF io = "ok" THEN WebpSaved(original_file_size[i], webp_size) ELSE 0
       IN  /\ fs' = fs_write(fs, webp_path, webp_size, "webp", io)
           /\ writers' = IF io = "create_err" THEN writers
                         ELSE writers \cup {<<webp_path, i>>}
           /\ saved_webp' = saved_webp + s
           /\ ret' = [ret EXCEPT ![i].webp = s]
  /\ pc' = [pc EXCEPT ![i] = IF args.avif THEN "avif" ELSE "orig"]
  /\ UNCHANGED <<setup, phase, original_file_size, total_input_size, saved_orig,
                 saved_avif, bar, calls, out>>

\* lines 294-299 and 159-190; avif_size 0 stands for an encoder error
GenerateAvif(i) ==
  /\ phase = "parallel"
  /\ pc[i] = "avif"
  /\ \E avif_size \in 0..MaxDerivedLen, io \in IoOutcomes :
       LET avif_path == AvifPath(files[i])
           s == IF avif_size > 0 /\ io = "ok"
                THEN AvifSaved(original_file_size[i], avif_size) ELSE 0
       IN  /\ avif_size = 0 => io = "ok"
           /\ fs' = IF avif_size = 0 THEN fs
                    ELSE fs_write(fs, avif_path, avif_size, "avif", io)
           /\ writers' = IF avif_size = 0 \/ io = "create_err" THEN writers
                         ELSE writers \cup {<<avif_path, i>>}
           /\ out' = IF avif_size = 0 THEN out \cup {"avif_error"} ELSE out
           /\ saved_avif' = saved_avif + s
           /\ ret' = [ret EXCEPT ![i].avif = s]
  /\ pc' = [pc EXCEPT ![i] = "orig"]
  /\ UNCHANGED <<setup, phase, original_file_size, total_input_size, saved_orig,
                 saved_webp, bar, calls>>

\* lines 303-315: the original-format adapter, then the counter and the
\* progress bar; a panic of the adapter unwinds the closure before both.
\* The codecs answer for the image found by the scan; oracle records the
\* answer.
ProcessOrig(i) ==
  /\ phase = "parallel"
  /\ pc[i] = "orig"
  /\ \E o \in Outcomes(scanFs, files[i]) :
     LET r == process_orig(fs, files[i], o)
     IN  /\ fs' = r.fs
         /\ oracle' = [oracle EXCEPT ![i] = o]
         /\ calls' = [calls EXCEPT ![i] = @ + 1]
         /\ writers' = IF r.wrote THEN writers \cup {<<files[i], i>>} ELSE writers
         /\ IF r.panic
            THEN /\ pc' = [pc EXCEPT ![i] = "panicked"]
                 /\ UNCHANGED <<saved_orig, bar, ret>>
            ELSE /\ pc' = [pc EXCEPT ![i] = "done"]
                 /\ saved_orig' = saved_orig + r.ret
                 /\ bar' = bar + 1
                 /\ ret' = [ret EXCEPT ![i].orig = r.ret]
  /\ UNCHANGED <<args, fs0, target_dir, files, scanFs, phase, original_file_size,
                 total_input_size, saved_webp, saved_avif, out>>

\* lines 316-383: for_each returns when every closure has returned; a panic
\* of a closure is raised again in main, which then prints no report
Join ==
  /\ phase = "parallel"
  /\ \A i \in Items : pc[i] \in {"done", "panicked"}
  /\ IF \E i \in Items : pc[i] = "panicked"
     THEN /\ phase' = "panicked"
          /\ out' = out
     ELSE /\ phase' = "report"
          /\ out' = out \cup {"final_results"}
  /\ UNCHANGED <<setup, fs, pc, original_file_size, counters, ret, writers, calls>>

Next ==
  \/ StageReplace
  \/ StageCopy
  \/ Scan
  \/ \E i \in Items : Dispatch(i)
  \/ \E i \in Items : GenerateWebp(i)
  \/ \E i \in Items : GenerateAvif(i)
  \/ \E i \in Items : ProcessOrig(i)
  \/ Join

Spec == Init /\ [][Next]_vars

\* ---------------------------------------------------------------- properties
InputRoot == Resolve(args.path)
UnderInput(p) == IsPrefix(InputRoot, p)
Started == phase \in {"parallel", "report", "panicked"}
Diagnostics == {"error_removing", "error_copying", "avif_error"}

RECURSIVE SumRet(_)
SumRet(n) ==
  IF n = 0 THEN 0
  ELSE SumRet(n - 1) + process_orig(scanFs, files[n], oracle[n]).ret

\* C1: in safe-copy mode every entry of the input tree keeps its content and
\* no entry is added to or removed from the input tree, for every input path.
C1_SafeCopyLeavesInput ==
  (~args.replace /\ InputRoot \in DOMAIN fs0) =>
    /\ \A p \in DOMAIN fs0 : UnderInput(p) => (p \in DOMAIN fs /\ fs[p] = fs0[p])
    /\ \A p \in DOMAIN fs : UnderInput(p) => p \in DOMAIN fs0

\* C2: no path is written for two different work items.
C2_DisjointWrites ==
  \A w1 \in writers, w2 \in writers : w1[1] = w2[1] => w1[2] = w2[2]

\* C3: every adapter call returns at most the size read for its item at
\* dispatch, and after the join each savings counter is at most the total
\* input size.
C3_SavingsBounded ==
  /\ Started => \A i \in Items :
       /\ ret[i].webp <= original_file_size[i]
       /\ ret[i].avif <= original_file_size[i]
       /\ ret[i].orig <= original_file_size[i]
  /\ phase = "report" =>
       /\ saved_orig <= total_input_size
       /\ saved_webp <= total_input_size
       /\ saved_avif <= total_input_size

\* a run that reports positive savings in all three categories
C3_Witness ==
  /\ phase = "report"
  /\ saved_orig > 0
  /\ saved_webp > 0
  /\ saved_avif > 0

\* C4: in replace mode no file of the work list is ever larger than it was
\* before the run, whatever the adapter did.
C4_ReplaceNeverGrows ==
  (args.replace /\ Started) =>
    \A i \in Items : metadata_len(fs, files[i], 0) <= metadata_len(fs0, files[i], 0)

\* a finished replace run in which the JPEG adapter and a PNG tool each
\* rewrote a file and one JPEG write failed or was not attempted
C4_Witness ==
  /\ args.replace
  /\ phase = "report"
  /\ \E i \in Items : fs[files[i]].data = "mozjpeg" /\ fs[files[i]].len < fs0[files[i]].len
  /\ \E i \in Items : fs[files[i]].data \in {"pngquant", "oxipng"}

\* C5: when the path argument does not exist the filesystem is never
\* changed, and the run ends with a diagnostic and "No supported files
\* found".
C5_MissingPathLeavesNoOutput ==
  (InputRoot \notin DOMAIN fs0) =>
    /\ fs = fs0
    /\ phase = "exit" => ("no_supported_files" \in out /\ out \cap Diagnostics # {})

\* C7: the original-format savings counter read after the join is the sum,
\* over the work list, of what the adapter returns on the file as the scan
\* found it, whatever the webp and avif flags and the derived encoders did.
C7_OrigSavingsIgnoreDerived ==
  phase = "report" => saved_orig = SumRet(Len(files))

\* a finished run with both derived formats written and original savings
C7_Witness ==
  /\ phase = "report"
  /\ args.webp /\ args.avif
  /\ saved_orig > 0
  /\ \E i \in Items : <<WebpPath(files[i]), i>> \in writers /\ <<AvifPath(files[i]), i>> \in writers

\* C8: every entry of the work list is a regular file with a supported
\* extension.
C8_WorkListIsFiles ==
  Started => \A i \in Items : scanFs[files[i]].kind = "file" /\ Supported(files[i])

\* C9: an original-format adapter call that failed (encode error, or failure
\* to open or write the output) returned 0 and left its file as it was.
C9_FailureLeavesFile ==
  \A i \in Items :
    (pc[i] = "done" /\ (oracle[i].enc # "ok" \/ oracle[i].io # "ok")) =>
      (ret[i].orig = 0 /\ fs[files[i]] = scanFs[files[i]])

\* C10: when the parallel phase is over, every work item has had its
\* original-format adapter invoked exactly once and the progress count equals
\* the length of the work list.
C10_AllItemsCounted ==
  phase \in {"report", "panicked"} =>
    (bar = Len(files) /\ \A i \in Items : calls[i] = 1)

====
